---- MODULE Spec2Model ----
(***************************************************************************)
(* A model of the chat.db analysis route (src/app/api/analyze/route.ts):   *)
(* the vCard contact-directory builder, the four store queries and the     *)
(* POST handler that assembles the response.                                *)
(*                                                                         *)
(* Text is a sequence of one-character strings.  An SQL / JS value is a    *)
(* tagged record: Null, IntV(n), Text(s) or Blob.                          *)
(***************************************************************************)
EXTENDS Integers, Sequences, FiniteSets, TLC

VARIABLES
  \* ---- parseVCard, run on its own (SpecVCard) ----
  vcRecords,      \* the address-book records the text was written from
  vcardContent,   \* parseVCard's argument
  vcContacts,     \* `contacts`: the chunks of the split text
  vcIdx,          \* how many chunks the for-loop has consumed
  phoneToName,    \* the Map being built
  setLog,         \* every phoneToName.set call so far: <<chunk, key, name>>
  vcPc,           \* "idle" | "loop" | "returned"
  \* ---- the POST handler, one instance per request ----
  pc,             \* where each request is
  form,           \* the form data the request carries
  phoneToNameMap, \* the request's directory
  db,             \* the request's Database object
  messages,       \* rows of messagesQuery
  contacts,       \* rows of contactsQuery
  dailyStats,     \* rows of dailyStatsQuery
  hourlyStats,    \* rows of hourlyStatsQuery
  formatted,      \* the formatted views built before db.close()
  response,       \* the responses the request has returned
  thrown          \* what was thrown on the way: <<place, ...>>

vcVars == <<vcRecords, vcardContent, vcContacts, vcIdx, phoneToName, setLog, vcPc>>
reqVars == <<pc, form, phoneToNameMap, db, messages, contacts, dailyStats,
             hourlyStats, formatted, response, thrown>>
vars == <<vcRecords, vcardContent, vcContacts, vcIdx, phoneToName, setLog, vcPc,
          pc, form, phoneToNameMap, db, messages, contacts, dailyStats,
          hourlyStats, formatted, response, thrown>>

(***************************************************************************)
(* Characters and the string primitives the route uses                     *)
(***************************************************************************)
LF == "\n"
CR == "\r"
TAB == "\t"
SP == " "
BS == "\\"

Digits == {"0", "1", "2", "3", "4", "5", "6", "7", "8", "9"}

\* What String.prototype.trim removes (of the characters that occur here).
Whitespace == {SP, TAB, LF, CR}

LowerToUpper ==
  [a |-> "A", b |-> "B", c |-> "C", d |-> "D", e |-> "E", f |-> "F", g |-> "G",
   h |-> "H", i |-> "I", j |-> "J", k |-> "K", l |-> "L", m |-> "M", n |-> "N",
   o |-> "O", p |-> "P", q |-> "Q", r |-> "R", s |-> "S", t |-> "T", u |-> "U",
   v |-> "V", w |-> "W", x |-> "X", y |-> "Y", z |-> "Z"]

\* Case folding of the regular expressions' /i flag.
Upper(c) == IF c \in DOMAIN LowerToUpper THEN LowerToUpper[c] ELSE c

Min(S) == CHOOSE x \in S : \A y \in S : x <= y

Drop(s, n) == SubSeq(s, n + 1, Len(s))

\* s.slice(-n)
SliceLast(s, n) == IF Len(s) <= n THEN s ELSE SubSeq(s, Len(s) - n + 1, Len(s))

\* pat (written in upper case) occurs in s at position i, ignoring case
MatchCIAt(s, i, pat) ==
  /\ i + Len(pat) - 1 <= Len(s)
  /\ \A k \in 1..Len(pat) : Upper(s[i + k - 1]) = pat[k]

Max(S) == CHOOSE x \in S : \A y \in S : x >= y

\* The members of a set of numbers, in increasing order
RECURSIVE Ascending(_)
Ascending(S) ==
  IF S = {} THEN <<>> ELSE <<Min(S)>> \o Ascending(S \ {Min(S)})

\* s without the characters at the positions in D
RemoveAt(s, D) ==
  LET tagged == [i \in 1..Len(s) |-> <<i, s[i]>>]
      kept == SelectSeq(tagged, LAMBDA p : p[1] \notin D)
  IN [k \in 1..Len(kept) |-> kept[k][2]]

\* How many times c stands immediately before position i, without a break
RunBefore(s, i, c) ==
  i - 1 - Max({0} \cup {j \in 1..(i - 1) : s[j] # c})

\* Where s.replace(/ab/g, ...) finds its matches, for a pattern of the two
\* characters a, b: leftmost first, never overlapping (only "aa" can overlap)
Matches2(s, a, b) ==
  {i \in 1..(Len(s) - 1) :
     /\ s[i] = a /\ s[i + 1] = b
     /\ a = b => RunBefore(s, i, a) % 2 = 0}

\* s.replace(/ab/g, 'c')
Replace2(s, a, b, c) ==
  LET at == Matches2(s, a, b)
  IN RemoveAt([i \in 1..Len(s) |-> IF i \in at THEN c ELSE s[i]], {i + 1 : i \in at})

\* s.replace(/\r/g, '\n')
ReplaceCR(s) == [i \in 1..Len(s) |-> IF s[i] = CR THEN LF ELSE s[i]]

\* s.replace(/\n[ \t]/g, '')
Unfold(s) ==
  LET at == {i \in 1..(Len(s) - 1) : s[i] = LF /\ s[i + 1] \in {SP, TAB}}
  IN RemoveAt(s, at \cup {i + 1 : i \in at})

\* s.trim()
Trim(s) ==
  LET solid == {i \in 1..Len(s) : s[i] \notin Whitespace}
  IN IF solid = {} THEN <<>> ELSE SubSeq(s, Min(solid), Max(solid))

\* The pieces of s between separators of length n that start at the positions
\* in `at` (which do not overlap): what s.split(separator) returns
SplitAt(s, at, n) ==
  LET cuts == Ascending(at)
  IN [k \in 1..(Len(cuts) + 1) |->
        SubSeq(s, IF k = 1 THEN 1 ELSE cuts[k - 1] + n,
                  IF k = Len(cuts) + 1 THEN Len(s) ELSE cuts[k] - 1)]

\* The position of the line feed that ends the line holding position i, or
\* Len(s) + 1: where [^\n]* stops.
LineEnd(s, i) ==
  Min({j \in i..(Len(s) + 1) : j = Len(s) + 1 \/ s[j] = LF})

RestOfLine(s, i) == SubSeq(s, i, LineEnd(s, i) - 1)

\* [;:]? : greedy, so a separator that is there is consumed
AfterSep(s, i) == IF i <= Len(s) /\ s[i] \in {";", ":"} THEN i + 1 ELSE i

NonEmpty(s) == s # <<>>

\* Unescape vCard escaping: the four chained replaces
Unescape(s) ==
  Replace2(Replace2(Replace2(Replace2(s, BS, ",", ","), BS, ";", ";"), BS, "n", SP),
           BS, BS, BS)

\* Remove all non-digit characters
IsDigit(c) == c \in Digits

normalizePhoneNumber(phone) == SelectSeq(phone, IsDigit)

(***************************************************************************)
(* parseVCard                                                              *)
(***************************************************************************)
\* A String.prototype.match result: <<>> for null, <<capture>> for a match.

\* Normalize line endings and remove continuation lines
NormalizeLines(text) == Unfold(ReplaceCR(Replace2(text, CR, LF, LF)))

\* normalized.split(/BEGIN:VCARD/i); the marker cannot overlap itself
SplitContacts(normalized) ==
  LET marker == <<"B", "E", "G", "I", "N", ":", "V", "C", "A", "R", "D">>
  IN SplitAt(normalized,
             {i \in 1..Len(normalized) : MatchCIAt(normalized, i, marker)},
             Len(marker))

\* contact.match(/FN[;:]?([^\n]*)/i): the first "FN" anywhere in the chunk
fnMatch(contact) ==
  LET at == {i \in 1..Len(contact) : MatchCIAt(contact, i, <<"F", "N">>)}
  IN IF at = {} THEN <<>>
     ELSE <<RestOfLine(contact, AfterSep(contact, Min(at) + 2))>>

\* contact.match(/^N[;:]?([^\n]*)/im): the first line that starts with "N"
nMatch(contact) ==
  LET at == {i \in 1..Len(contact) :
               /\ i = 1 \/ contact[i - 1] = LF
               /\ Upper(contact[i]) = "N"}
  IN IF at = {} THEN <<>>
     ELSE <<RestOfLine(contact, AfterSep(contact, Min(at) + 1))>>

\* s.split(';')
SplitSemi(s) == SplitAt(s, {i \in 1..Len(s) : s[i] = ";"}, 1)

\* parts.join(' ')
RECURSIVE JoinSpace(_)
JoinSpace(parts) ==
  IF parts = <<>> THEN <<>>
  ELSE IF Len(parts) = 1 THEN parts[1]
  ELSE parts[1] \o <<SP>> \o JoinSpace(Tail(parts))

\* The N fallback: nMatch[1].split(';').map(trim).filter(p => p), then
\* given = nameParts[1], family = nameParts[0] of the FILTERED list.
StructuredName(field) ==
  LET split == SplitSemi(field)
      nameParts == SelectSeq([i \in 1..Len(split) |-> Trim(split[i])], NonEmpty)
  IN IF Len(nameParts) > 0
     THEN LET given == IF Len(nameParts) >= 2 THEN nameParts[2] ELSE <<>>
              family == nameParts[1]
              name == Trim(JoinSpace(SelectSeq(<<given, family>>, NonEmpty)))
          IN IF name = <<>> THEN nameParts[1] ELSE name
     ELSE <<>>

\* Extract name from FN (Full Name) or N (Name) field; <<>> is ''.
ContactName(contact) ==
  LET fn == fnMatch(contact)
      name == IF fn # <<>> THEN Unescape(Trim(fn[1])) ELSE <<>>
  IN IF name # <<>> THEN name
     ELSE LET n == nMatch(contact)
          IN IF n # <<>> THEN StructuredName(n[1]) ELSE <<>>

\* The first ':' at or after position i on i's line, or 0: where TEL[^:\n]*: ends.
ColonAfter(s, i) ==
  LET cs == {k \in i..(LineEnd(s, i) - 1) : s[k] = ":"}
  IN IF cs = {} THEN 0 ELSE Min(cs)

\* contact.matchAll(/TEL[^:\n]*:([^\n]*)/gi): the captures, in order
RECURSIVE telMatches(_, _)
telMatches(s, from) ==
  LET at == {i \in from..(Len(s) - 2) :
               MatchCIAt(s, i, <<"T", "E", "L">>) /\ ColonAfter(s, i + 3) # 0}
  IN IF at = {} THEN <<>>
     ELSE LET c == ColonAfter(s, Min(at) + 3)
          IN <<RestOfLine(s, c + 1)>> \o telMatches(s, LineEnd(s, c + 1))

\* PhoneKeys without the derived variants: only the full number is stored
PhoneKeysFullOnly(normalizedPhone) ==
  IF normalizedPhone # <<>> /\ Len(normalizedPhone) >= 10
  THEN <<normalizedPhone>> ELSE <<>>

\* The keys one telephone value is stored under, in the order of the set calls.
PhoneKeys(normalizedPhone) ==
  IF normalizedPhone # <<>> /\ Len(normalizedPhone) >= 10
  THEN <<normalizedPhone>>
       \o (IF Len(normalizedPhone) > 10 THEN <<SliceLast(normalizedPhone, 10)>> ELSE <<>>)
       \o (IF Len(normalizedPhone) = 11 /\ normalizedPhone[1] = "1"
           THEN <<Drop(normalizedPhone, 1)>> ELSE <<>>)
  ELSE <<>>

\* match[1].trim(), unescaped, normalized
TelKey(capture) == normalizePhoneNumber(Unescape(Trim(capture)))

RECURSIVE TelSets(_, _)
TelSets(tels, name) ==
  IF tels = <<>> THEN <<>>
  ELSE LET keys == PhoneKeys(TelKey(Head(tels)))
       IN [i \in 1..Len(keys) |-> <<keys[i], name>>] \o TelSets(Tail(tels), name)

\* One iteration of `for (const contact of contacts)`: the phoneToName.set
\* calls it makes, as <<key, name>>, in order.
ContactSets(contact) ==
  IF Trim(contact) = <<>> THEN <<>>
  ELSE LET name == ContactName(contact)
       IN IF name = <<>> THEN <<>> ELSE TelSets(telMatches(contact, 1), name)

\* Map.prototype.set
MapSet(m, k, v) == [x \in (DOMAIN m) \cup {k} |-> IF x = k THEN v ELSE m[x]]

RECURSIVE ApplySets(_, _)
ApplySets(m, sets) ==
  IF sets = <<>> THEN m
  ELSE ApplySets(MapSet(m, Head(sets)[1], Head(sets)[2]), Tail(sets))

RECURSIVE ParseContacts(_, _)
ParseContacts(m, cs) ==
  IF cs = <<>> THEN m
  ELSE ParseContacts(ApplySets(m, ContactSets(Head(cs))), Tail(cs))

parseVCard(text) == ParseContacts(<<>>, SplitContacts(NormalizeLines(text)))

(***************************************************************************)
(* Address-book inputs.  A record is written down field by field, so what  *)
(* each record holds is known apart from what parseVCard makes of its text.*)
(***************************************************************************)
MaxRecords == 2

Field(kind, raw, value) == [kind |-> kind, raw |-> raw, value |-> value]

sFN == <<"F", "N", ":">>
sN == <<"N", ":">>
sTEL == <<"T", "E", "L", ":">>

nameAl == <<"A", "l">>
nameBo == <<"B", "o">>

\* Telephone values as they are written in the address book
telA11 == <<"+", "1", SP, "(", "5", "5", "5", ")", SP, "1", "2", "3", "-", "4", "5", "6", "7">>
telA10 == <<"5", "5", "5", "-", "1", "2", "3", "-", "4", "5", "6", "7">>
telB10 == <<"5", "5", "5", "9", "8", "7", "6", "5", "4", "3">>
telB11 == <<"1", "-", "5", "5", "5", "-", "9", "8", "7", "-", "6", "5", "4", "3">>
telC12 == <<"+", "4", "4", SP, "5", "5", "5", "1", "2", "3", "4", "5", "6", "7">>
telShort == <<"5", "5", "5", "-", "1", "2", "3", "4">>

FNField(v) == Field("FN", sFN \o v, v)
NField(v) == Field("N", sN \o v, v)
TELField(v) == Field("TEL", sTEL \o v, v)
OtherField(raw) == Field("OTHER", raw, <<>>)

Record(begin, eol, fields) == [begin |-> begin, eol |-> eol, fields |-> fields]

sBEGIN == <<"B", "E", "G", "I", "N", ":", "V", "C", "A", "R", "D">>
sEND == <<"E", "N", "D", ":", "V", "C", "A", "R", "D">>

\* a full name and a +1 number
recAl ==
  Record(sBEGIN, <<LF>>, <<OtherField(<<"V", "E", "R", "S", "I", "O", "N", ":", "3", ".", "0">>), FNField(nameAl), TELField(telA11)>>)

\* CRLF line ends, a typed TEL, the same number without the country code
recBo ==
  Record(sBEGIN, <<CR, LF>>,
  <<FNField(nameBo), Field("TEL", <<"T", "E", "L", ";", "T", "Y", "P", "E", "=", "C", "E", "L", "L", ":", "5", "5", "5", "-", "1", "2", "3", "-", "4", "5", "6", "7">>, telA10)>>)

\* bare CR line ends, a structured name: family;given
recDoeJo ==
  Record(sBEGIN, <<CR>>, <<NField(<<"D", "o", "e", ";", "J", "o", ";", ";", ";">>), TELField(telB10)>>)

\* a structured name with a family, no given name and a prefix
recDoeDr ==
  Record(sBEGIN, <<LF>>, <<NField(<<"D", "o", "e", ";", ";", ";", "D", "r", ";">>), TELField(telB11)>>)

\* a structured name with only an additional name
recMid ==
  Record(sBEGIN, <<LF>>, <<NField(<<";", ";", "M", "i", "d", ";", ";">>), TELField(telB10)>>)

\* no FN and no N: a NOTE
recNote ==
  Record(sBEGIN, <<LF>>, <<OtherField(<<"N", "O", "T", "E", ":", "h", "i">>), TELField(telB10)>>)

\* no FN and no N: an ORG whose value holds the letters "fn"
recOrg ==
  Record(sBEGIN, <<LF>>, <<OtherField(<<"O", "R", "G", ":", "E", "l", "f", "n", "e", "t">>), TELField(telA11)>>)

\* no FN and no N, nothing but a TEL
recTelOnly ==
  Record(sBEGIN, <<LF>>, <<TELField(telA10)>>)

\* an escaped full name, a number that is too short and a 12-digit one
recEsc ==
  Record(sBEGIN, <<LF>>,
  <<FNField(<<"A", "l", BS, ",", SP, "J", "r">>), TELField(telShort), TELField(telC12)>>)

\* lower-case marker and field names, a folded FN line
recFolded ==
  Record(<<"b", "e", "g", "i", "n", ":", "v", "c", "a", "r", "d">>, <<LF>>,
  <<Field("FN", <<"f", "n", ":", "B", LF, SP, "o">>, nameBo), Field("TEL", <<"t", "e", "l", ":", "+", "1", SP, "(", "5", "5", "5", ")", SP, "1", "2", "3", "-", "4", "5", "6", "7">>, telA11)>>)

\* an empty FN and a structured name
recEmptyFn ==
  Record(sBEGIN, <<LF>>, <<FNField(<<>>), NField(<<"D", "o", "e", ";", "J", "o", ";", ";", ";">>), TELField(telA10)>>)

\* an ORG ending in "fn" ahead of the FN field
recOrgFn ==
  Record(sBEGIN, <<LF>>,
  <<OtherField(<<"O", "R", "G", ":", "E", "l", "f", "n">>), FNField(nameAl), TELField(telA11)>>)

RecordPool ==
  {recAl, recBo, recDoeJo, recDoeDr, recMid, recNote,
   recOrg, recTelOnly, recEsc, recFolded, recEmptyFn, recOrgFn}

RECURSIVE RenderFields(_, _)
RenderFields(fields, eol) ==
  IF fields = <<>> THEN <<>>
  ELSE Head(fields).raw \o eol \o RenderFields(Tail(fields), eol)

RenderRecord(r) == r.begin \o r.eol \o RenderFields(r.fields, r.eol) \o sEND \o r.eol

RECURSIVE Render(_)
Render(records) ==
  IF records = <<>> THEN <<>> ELSE RenderRecord(Head(records)) \o Render(Tail(records))

SeqsUpTo(S, n) == UNION {[1..k -> S] : k \in 0..n}

VCardInputs == SeqsUpTo(RecordPool, MaxRecords)

(***************************************************************************)
(* parseVCard step by step: one action per iteration of its for-loop       *)
(***************************************************************************)
VcInit ==
  /\ vcRecords \in VCardInputs
  /\ vcardContent = Render(vcRecords)
  /\ vcContacts = <<>>
  /\ vcIdx = 0
  /\ phoneToName = <<>>
  /\ setLog = <<>>
  /\ vcPc = "start"

\* lines 15-24: the empty Map, the normalized text, the split
VcSplit ==
  /\ vcPc = "start"
  /\ vcContacts' = SplitContacts(NormalizeLines(vcardContent))
  /\ vcPc' = "loop"
  /\ UNCHANGED <<vcRecords, vcardContent, vcIdx, phoneToName, setLog>>

VcNext == vcContacts[vcIdx + 1]

\* line 27: if (!contact.trim()) continue
VcSkipBlank ==
  /\ vcPc = "loop" /\ vcIdx < Len(vcContacts)
  /\ Trim(VcNext) = <<>>
  /\ vcIdx' = vcIdx + 1
  /\ UNCHANGED <<vcRecords, vcardContent, vcContacts, phoneToName, setLog, vcPc>>

\* line 62: if (!name) continue
VcSkipUnnamed ==
  /\ vcPc = "loop" /\ vcIdx < Len(vcContacts)
  /\ Trim(VcNext) # <<>>
  /\ ContactName(VcNext) = <<>>
  /\ vcIdx' = vcIdx + 1
  /\ UNCHANGED <<vcRecords, vcardContent, vcContacts, phoneToName, setLog, vcPc>>

\* lines 64-84: every TEL of a named chunk is stored
VcAddContact ==
  /\ vcPc = "loop" /\ vcIdx < Len(vcContacts)
  /\ Trim(VcNext) # <<>>
  /\ ContactName(VcNext) # <<>>
  /\ LET sets == ContactSets(VcNext)
     IN /\ phoneToName' = ApplySets(phoneToName, sets)
        /\ setLog' = setLog \o [i \in 1..Len(sets) |-> <<vcIdx + 1, sets[i][1], sets[i][2]>>]
  /\ vcIdx' = vcIdx + 1
  /\ UNCHANGED <<vcRecords, vcardContent, vcContacts, vcPc>>

\* line 87: return phoneToName
VcReturn ==
  /\ vcPc = "loop" /\ vcIdx = Len(vcContacts)
  /\ vcPc' = "returned"
  /\ UNCHANGED <<vcRecords, vcardContent, vcContacts, vcIdx, phoneToName, setLog>>

(***************************************************************************)
(* The message store: SQL values, tables and the four queries              *)
(***************************************************************************)
Null == [t |-> "null"]
IntV(n) == [t |-> "int", v |-> n]
Text(s) == [t |-> "text", v |-> s]
Blob == [t |-> "blob"]

\* JavaScript truthiness of a value sql.js hands back (a BLOB is a Uint8Array)
Truthy(x) ==
  CASE x.t = "null" -> FALSE
    [] x.t = "int" -> x.v # 0
    [] x.t = "text" -> x.v # <<>>
    [] OTHER -> TRUE

MaxMessages == 2

\* formattedMessages.slice(0, 100)
MessageCap == 100

\* Timestamps are counted in whole hours since the store's epoch, so the
\* offset 978307200 s of the queries is this many hours.
EpochOffsetHours == 271752

HandleRow(rowid, id) == [ROWID |-> rowid, id |-> id]

HandleTables ==
  { <<>>,
    <<HandleRow(1, Text(<<"+", "1", "5", "5", "5", "1", "2", "3", "4", "5", "6", "7">>)), HandleRow(2, Text(<<"5", "5", "5", "-", "1", "2", "3", "4">>))>>,
    <<HandleRow(1, Text(<<"+", "4", "4", SP, "5", "5", "5", "1", "2", "3", "4", "5", "6", "7">>)), HandleRow(2, Text(<<"a", "@", "b", ".", "c", "o">>))>>,
    <<HandleRow(1, Text(<<>>)), HandleRow(2, Null)>>,
    <<HandleRow(1, Text(<<"(", "5", "5", "5", ")", SP, "1", "2", "3", "-", "4", "5", "6", "7">>)), HandleRow(2, Blob)>> }

\* A message and the chats chat_message_join joins it to
Msg(from, handle, date, chats) ==
  [is_from_me |-> from, handle_id |-> handle, date |-> date, chats |-> chats]

MessagePool ==
  { Msg(IntV(1), IntV(1), IntV(30), <<1>>),
    Msg(IntV(0), IntV(1), IntV(5), <<1>>),
    Msg(IntV(0), IntV(2), IntV(30), <<1, 2>>),
    Msg(IntV(2), IntV(1), IntV(5), <<>>),
    Msg(Null, Null, Null, <<>>),
    Msg(IntV(1), IntV(9), IntV(5), <<3>>) }

ChatTable ==
  << [ROWID |-> 1, chat_identifier |-> Text(<<"c", "1">>), display_name |-> Null],
     [ROWID |-> 2, chat_identifier |-> Text(<<"c", "2">>),
      display_name |-> Text(<<"G">>)] >>

\* The tables of a chat.db holding the messages ms: ROWIDs are positions
MessageTable(ms) ==
  [i \in 1..Len(ms) |->
     [ROWID |-> i, guid |-> Text(<<"g">>), text |-> Null, date |-> ms[i].date,
      date_read |-> Null, is_from_me |-> ms[i].is_from_me,
      handle_id |-> ms[i].handle_id]]

RECURSIVE JoinTable(_, _)
JoinTable(ms, i) ==
  IF i > Len(ms) THEN <<>>
  ELSE [k \in 1..Len(ms[i].chats) |-> [chat_id |-> ms[i].chats[k], message_id |-> i]]
       \o JoinTable(ms, i + 1)

Store(handles, ms) ==
  [handle |-> handles, message |-> MessageTable(ms), chat |-> ChatTable,
   chat_message_join |-> JoinTable(ms, 1)]

\* A chat.db whose all-messages query returns more rows than the response
\* keeps: every message is joined to two chats, the dates all differ and rise
\* with the ROWID
BulkStore ==
  Store(<<HandleRow(1, Text(<<"+", "1", "5", "5", "5", "1", "2", "3", "4", "5", "6", "7">>))>>,
        [i \in 1..(MessageCap \div 2 + 1) |-> Msg(IntV(i % 2), IntV(1), IntV(i), <<1, 2>>)])

Stores ==
  {Store(h, ms) : h \in HandleTables, ms \in SeqsUpTo(MessagePool, MaxMessages)}
    \cup {BulkStore}

\* LEFT JOIN handle h ON m.handle_id = h.ROWID: h.id, or NULL without a match
HandleIdOf(store, handle_id) ==
  LET hit == SelectSeq(store.handle, LAMBDA h : handle_id = IntV(h.ROWID))
  IN IF hit = <<>> THEN Null ELSE hit[1].id

\* LEFT JOIN chat c ON cmj.chat_id = c.ROWID
ChatOf(store, chat_id) ==
  LET hit == SelectSeq(store.chat, LAMBDA c : c.ROWID = chat_id)
  IN IF hit = <<>> THEN [chat_identifier |-> Null, display_name |-> Null]
     ELSE [chat_identifier |-> hit[1].chat_identifier, display_name |-> hit[1].display_name]

\* datetime(m.date/1000000000 + 978307200, 'unixepoch', 'localtime'), in hours
\* since the Unix epoch (local time is taken to be UTC); NULL for a NULL date
DateTime(date) == IF date.t = "int" THEN IntV(date.v + EpochOffsetHours) ELSE Null

\* date(...): the calendar day
DayOf(date) == IF date.t = "int" THEN IntV((date.v + EpochOffsetHours) \div 24) ELSE Null

\* CAST(strftime('%H', ...) AS INTEGER)
HourOf(date) == IF date.t = "int" THEN IntV((date.v + EpochOffsetHours) % 24) ELSE Null

\* The sort key of an SQL integer-or-NULL: NULL sorts below every integer
SortKey(x) == IF x.t = "int" THEN x.v ELSE -1

\* ORDER BY key DESC over the positions `left` of rows, keys[i] being the key
\* of rows[i]; ties keep table order
RECURSIVE OrderDesc(_, _, _)
OrderDesc(rows, keys, left) ==
  IF left = {} THEN <<>>
  ELSE LET top == CHOOSE i \in left :
                    \A j \in left : \/ keys[i] > keys[j]
                                    \/ keys[i] = keys[j] /\ i <= j
       IN <<rows[top]>> \o OrderDesc(rows, keys, left \ {top})

RECURSIVE Flatten(_)
Flatten(ss) == IF ss = <<>> THEN <<>> ELSE Head(ss) \o Flatten(Tail(ss))

\* The rows one message contributes to messagesQuery: one per chat_message_join
\* row of the message, or one with NULL chat columns when it has none.
\* Columns: 0 ROWID, 1 guid, 2 text, 3 date, 4 date_read, 5 is_from_me,
\* 6 handle_id, 7 phone_number, 8 chat_identifier, 9 display_name, 10 readable_date
MessageRows(store, m) ==
  LET joins == SelectSeq(store.chat_message_join, LAMBDA j : j.message_id = m.ROWID)
      Row(c) == <<IntV(m.ROWID), m.guid, m.text, m.date, m.date_read, m.is_from_me,
                  m.handle_id, HandleIdOf(store, m.handle_id), c.chat_identifier,
                  c.display_name, DateTime(m.date)>>
  IN IF joins = <<>> THEN <<Row([chat_identifier |-> Null, display_name |-> Null])>>
     ELSE [k \in 1..Len(joins) |-> Row(ChatOf(store, joins[k].chat_id))]

\* messagesQuery: message LEFT JOIN handle LEFT JOIN chat_message_join LEFT JOIN
\* chat, ORDER BY m.date DESC
MessagesQuery(store) ==
  LET keys == [i \in DOMAIN store.message |-> SortKey(store.message[i].date)]
      sorted == OrderDesc(store.message, keys, DOMAIN store.message)
  IN Flatten([i \in 1..Len(sorted) |-> MessageRows(store, sorted[i])])

\* One group of contactsQuery: handle h LEFT JOIN message m ON h.ROWID = m.handle_id.
\* A handle without messages still has one joined row (all of m NULL), which
\* COUNT(*) counts.  Columns: 0 ROWID, 1 phone_number, 2 message_count,
\* 3 received_count, 4 sent_count
ContactRow(store, h) ==
  LET joined == SelectSeq(store.message, LAMBDA m : m.handle_id = IntV(h.ROWID))
      received == SelectSeq(joined, LAMBDA m : m.is_from_me = IntV(0))
      sent == SelectSeq(joined, LAMBDA m : m.is_from_me = IntV(1))
  IN <<IntV(h.ROWID), h.id,
       IntV(IF joined = <<>> THEN 1 ELSE Len(joined)),
       IntV(Len(received)), IntV(Len(sent))>>

\* contactsQuery: GROUP BY h.ROWID, h.id ORDER BY message_count DESC
ContactsQuery(store) ==
  LET rows == [i \in 1..Len(store.handle) |-> ContactRow(store, store.handle[i])]
  IN OrderDesc(rows, [i \in DOMAIN rows |-> rows[i][3].v], DOMAIN rows)

\* SELECT key, COUNT(*) ... GROUP BY key, keys[i] being the key of row i:
\* one <<key, count>> per group
GroupCount(keys) ==
  {<<k, IntV(Cardinality({i \in DOMAIN keys : keys[i] = k}))>> :
     k \in {keys[i] : i \in DOMAIN keys}}

RECURSIVE SetToSeq(_)
SetToSeq(S) == IF S = {} THEN <<>> ELSE LET x == CHOOSE x \in S : TRUE
                                        IN <<x>> \o SetToSeq(S \ {x})

Reverse(s) == [i \in 1..Len(s) |-> s[Len(s) + 1 - i]]

DailyLimit == 365

\* dailyStatsQuery: GROUP BY day ORDER BY day DESC LIMIT 365
DailyStatsQuery(store) ==
  LET rows == SetToSeq(GroupCount([i \in DOMAIN store.message |->
                                     DayOf(store.message[i].date)]))
      sorted == OrderDesc(rows, [i \in DOMAIN rows |-> SortKey(rows[i][1])], DOMAIN rows)
  IN SubSeq(sorted, 1, IF Len(sorted) < DailyLimit THEN Len(sorted) ELSE DailyLimit)

\* hourlyStatsQuery: GROUP BY hour ORDER BY hour
HourlyStatsQuery(store) ==
  LET rows == SetToSeq(GroupCount([i \in DOMAIN store.message |->
                                     HourOf(store.message[i].date)]))
  IN Reverse(OrderDesc(rows, [i \in DOMAIN rows |-> SortKey(rows[i][1])], DOMAIN rows))

(***************************************************************************)
(* The POST handler                                                        *)
(***************************************************************************)
Requests == {1, 2}

NoFile == [kind |-> "none"]

\* formData.get('file'): an uploaded chat.db
DbFile(store) == [kind |-> "file", store |-> store]

\* formData.get('contactsFile'): an upload whose text() resolves ...
ContactsFile(records) == [kind |-> "file", readable |-> TRUE, text |-> Render(records)]

\* ... and one whose text() throws or rejects
UnreadableContacts == [kind |-> "file", readable |-> FALSE, text |-> <<>>]

FileInputs == {NoFile} \cup {DbFile(st) : st \in Stores}

ContactsInputs ==
  {NoFile, UnreadableContacts, ContactsFile(<<>>), ContactsFile(<<recAl>>),
   ContactsFile(<<recBo>>)}

\* What a failing await or a throwing call carries: an Error with a message,
\* which may be empty
Errors == {[message |-> ""], [message |-> "SQLITE_ERROR"]}

WasmError == [message |-> "Could not find sql-wasm.wasm file."]

NoDb == [state |-> "none"]

\* getContactName throws when normalizePhoneNumber is handed a truthy value
\* that is no string: phone.replace is not a function
ContactNameThrows(phoneNumber) == Truthy(phoneNumber) /\ phoneNumber.t # "text"

\* Map.prototype.get: <<>> for undefined, <<name>> for a hit
MapGet(m, k) == IF k \in DOMAIN m THEN <<m[k]>> ELSE <<>>

\* getContactName without the last-10-digits lookup
getContactNameExact(map, phoneNumber) ==
  IF ~Truthy(phoneNumber) THEN Null
  ELSE LET full == MapGet(map, normalizePhoneNumber(phoneNumber.v))
       IN IF full # <<>> /\ full[1] # <<>> THEN Text(full[1]) ELSE Null

\* Helper function to get contact name from phone number (a string or null)
getContactName(map, phoneNumber) ==
  IF ~Truthy(phoneNumber) THEN Null
  ELSE LET normalized == normalizePhoneNumber(phoneNumber.v)
           full == MapGet(map, normalized)
           last10 == MapGet(map, SliceLast(normalized, 10))
       IN IF full # <<>> /\ full[1] # <<>> THEN Text(full[1])
          ELSE IF last10 # <<>> /\ last10[1] # <<>> THEN Text(last10[1])
          ELSE Null

\* Calculate overall statistics
Summary(msgs, cts) ==
  [totalMessages |-> Len(msgs),
   sentMessages |-> Len(SelectSeq(msgs, LAMBDA m : m[6] = IntV(1))),
   receivedMessages |-> Len(SelectSeq(msgs, LAMBDA m : m[6] = IntV(0))),
   uniqueContacts |-> Len(cts)]

FormatMessage(map, msg) ==
  [id |-> msg[1], guid |-> msg[2], text |-> msg[3], date |-> msg[4],
   dateRead |-> msg[5], isFromMe |-> (msg[6] = IntV(1)), handleId |-> msg[7],
   phoneNumber |-> msg[8], contactName |-> getContactName(map, msg[8]),
   chatIdentifier |-> msg[9], displayName |-> msg[10], readableDate |-> msg[11]]

FormatContact(map, contact) ==
  [id |-> contact[1], phoneNumber |-> contact[2],
   contactName |-> getContactName(map, contact[2]),
   messageCount |-> contact[3], receivedCount |-> contact[4], sentCount |-> contact[5]]

FormatDailyStat(stat) == [day |-> stat[1], count |-> stat[2]]

FormatHourlyStat(stat) == [hour |-> stat[1], count |-> stat[2]]

\* lines 222-269: whether the formatting throws
FormatThrows(msgs, cts) ==
  \/ \E i \in DOMAIN msgs : ContactNameThrows(msgs[i][8])
  \/ \E i \in DOMAIN cts : ContactNameThrows(cts[i][2])

\* lines 222-269: the summary and the four formatted lists
Formatted(map, msgs, cts, daily, hourly) ==
  [summary |-> Summary(msgs, cts),
   contacts |-> [i \in DOMAIN cts |-> FormatContact(map, cts[i])],
   dailyStats |-> [i \in DOMAIN daily |-> FormatDailyStat(daily[i])],
   hourlyStats |-> [i \in DOMAIN hourly |-> FormatHourlyStat(hourly[i])],
   messages |-> [i \in DOMAIN msgs |-> FormatMessage(map, msgs[i])]]

\* The success response without the slice(0, 100)
SuccessResponseUncapped(f) ==
  [status |-> 200,
   body |-> [summary |-> f.summary, contacts |-> f.contacts,
             dailyStats |-> f.dailyStats, hourlyStats |-> f.hourlyStats,
             messages |-> f.messages]]

\* lines 273-284: the success response
SuccessResponse(f) ==
  [status |-> 200,
   body |-> [summary |-> f.summary, contacts |-> f.contacts,
             dailyStats |-> f.dailyStats, hourlyStats |-> f.hourlyStats,
             messages |-> SubSeq(f.messages, 1,
                                 IF Len(f.messages) < MessageCap
                                 THEN Len(f.messages) ELSE MessageCap)]]

\* lines 96-98
NoFileResponse == [status |-> 400, body |-> [error |-> "No file provided"]]

\* The outer catch without the fallback text for an empty error.message
CatchResponseBare(error) == [status |-> 500, body |-> [error |-> error.message]]

\* lines 285-291: the outer catch
CatchResponse(error) ==
  [status |-> 500,
   body |-> [error |-> IF error.message # "" THEN error.message
                       ELSE "Failed to analyze chat.db"]]

Goto(r, label) == pc' = [pc EXCEPT ![r] = label]

\* An error thrown at `place` reaches the outer catch, which answers and returns
Throw(r, place, error) ==
  /\ thrown' = [thrown EXCEPT ![r] = Append(@, place)]
  /\ response' = [response EXCEPT ![r] = Append(@, CatchResponse(error))]
  /\ Goto(r, "done")

\* The contacts step without its own try/catch: the error reaches the outer catch
ContactsCatchFatal(r) ==
  /\ Throw(r, "contacts", WasmError)
  /\ UNCHANGED phoneToNameMap

\* lines 106-109: the inner catch logs and goes on without contacts
ContactsCatch(r) ==
  /\ thrown' = [thrown EXCEPT ![r] = Append(@, "contacts")]
  /\ Goto(r, "arrayBuffer")
  /\ UNCHANGED <<phoneToNameMap, response>>

\* lines 92-110, up to the next await
FormData(r) ==
  /\ pc[r] = "formData"
  /\ \/ /\ \E e \in Errors : Throw(r, "formData", e)
        /\ UNCHANGED form
     \/ \E file \in FileInputs, contactsFile \in ContactsInputs :
          /\ form' = [form EXCEPT ![r] = [file |-> file, contactsFile |-> contactsFile]]
          /\ IF file.kind = "none"
             THEN /\ response' = [response EXCEPT ![r] = Append(@, NoFileResponse)]
                  /\ Goto(r, "done")
             ELSE /\ Goto(r, IF contactsFile.kind # "none"
                             THEN "contactsText" ELSE "arrayBuffer")
                  /\ UNCHANGED response
          /\ UNCHANGED thrown
  /\ UNCHANGED <<phoneToNameMap, db, messages, contacts, dailyStats, hourlyStats,
                 formatted>>

\* The contacts step with one directory for the whole process instead of one
\* per request: what it parses is every request's directory
ContactsTextShared(r) ==
  /\ pc[r] = "contactsText"
  /\ IF form[r].contactsFile.readable
     THEN /\ phoneToNameMap' =
               [q \in Requests |-> parseVCard(form[r].contactsFile.text)]
          /\ Goto(r, "arrayBuffer")
          /\ UNCHANGED <<thrown, response>>
     ELSE ContactsCatch(r)
  /\ UNCHANGED <<form, db, messages, contacts, dailyStats, hourlyStats, formatted>>

\* lines 103-109: await contactsFile.text(), then parseVCard
ContactsText(r) ==
  /\ pc[r] = "contactsText"
  /\ IF form[r].contactsFile.readable
     THEN /\ phoneToNameMap' =
               [phoneToNameMap EXCEPT ![r] = parseVCard(form[r].contactsFile.text)]
          /\ Goto(r, "arrayBuffer")
          /\ UNCHANGED <<thrown, response>>
     ELSE ContactsCatch(r)
  /\ UNCHANGED <<form, db, messages, contacts, dailyStats, hourlyStats, formatted>>

\* An await that either resolves, and the handler goes on at `next`, or rejects
Await(r, here, next) ==
  /\ pc[r] = here
  /\ \/ Goto(r, next) /\ UNCHANGED <<thrown, response>>
     \/ \E e \in Errors : Throw(r, here, e)
  /\ UNCHANGED <<form, phoneToNameMap, db, messages, contacts, dailyStats,
                 hourlyStats, formatted>>

\* line 120: await file.arrayBuffer()
ArrayBuffer(r) == Await(r, "arrayBuffer", "readWasm")

\* lines 126-130: the first readFile of the WASM binary
ReadWasm(r) ==
  /\ pc[r] = "readWasm"
  /\ \/ Goto(r, "initSqlJs")
     \/ Goto(r, "readWasmAlt")
  /\ UNCHANGED <<form, phoneToNameMap, db, messages, contacts, dailyStats,
                 hourlyStats, formatted, thrown, response>>

\* lines 132-143: the fallback readFile; its failure is rethrown
ReadWasmAlt(r) ==
  /\ pc[r] = "readWasmAlt"
  /\ \/ Goto(r, "initSqlJs") /\ UNCHANGED <<thrown, response>>
     \/ Throw(r, "readWasm", WasmError)
  /\ UNCHANGED <<form, phoneToNameMap, db, messages, contacts, dailyStats,
                 hourlyStats, formatted>>

\* lines 146-148: await initSqlJs
InitSqlJs(r) == Await(r, "initSqlJs", "open")

\* line 151: new SQL.Database(bytes)
OpenDatabase(r) ==
  /\ pc[r] = "open"
  /\ \/ /\ db' = [db EXCEPT ![r] = [state |-> "open", store |-> form[r].file.store]]
        /\ Goto(r, "messagesQuery")
        /\ UNCHANGED <<thrown, response>>
     \/ /\ \E e \in Errors : Throw(r, "open", e)
        /\ UNCHANGED db
  /\ UNCHANGED <<form, phoneToNameMap, messages, contacts, dailyStats, hourlyStats,
                 formatted>>

\* lines 175-176
ExecMessages(r) ==
  /\ pc[r] = "messagesQuery"
  /\ \/ /\ messages' = [messages EXCEPT ![r] = MessagesQuery(db[r].store)]
        /\ Goto(r, "contactsQuery")
        /\ UNCHANGED <<thrown, response>>
     \/ /\ \E e \in Errors : Throw(r, "messagesQuery", e)
        /\ UNCHANGED messages
  /\ UNCHANGED <<form, phoneToNameMap, db, contacts, dailyStats, hourlyStats, formatted>>

\* lines 192-193
ExecContacts(r) ==
  /\ pc[r] = "contactsQuery"
  /\ \/ /\ contacts' = [contacts EXCEPT ![r] = ContactsQuery(db[r].store)]
        /\ Goto(r, "dailyStatsQuery")
        /\ UNCHANGED <<thrown, response>>
     \/ /\ \E e \in Errors : Throw(r, "contactsQuery", e)
        /\ UNCHANGED contacts
  /\ UNCHANGED <<form, phoneToNameMap, db, messages, dailyStats, hourlyStats, formatted>>

\* lines 206-207
ExecDailyStats(r) ==
  /\ pc[r] = "dailyStatsQuery"
  /\ \/ /\ dailyStats' = [dailyStats EXCEPT ![r] = DailyStatsQuery(db[r].store)]
        /\ Goto(r, "hourlyStatsQuery")
        /\ UNCHANGED <<thrown, response>>
     \/ /\ \E e \in Errors : Throw(r, "dailyStatsQuery", e)
        /\ UNCHANGED dailyStats
  /\ UNCHANGED <<form, phoneToNameMap, db, messages, contacts, hourlyStats, formatted>>

\* lines 219-220
ExecHourlyStats(r) ==
  /\ pc[r] = "hourlyStatsQuery"
  /\ \/ /\ hourlyStats' = [hourlyStats EXCEPT ![r] = HourlyStatsQuery(db[r].store)]
        /\ Goto(r, "format")
        /\ UNCHANGED <<thrown, response>>
     \/ /\ \E e \in Errors : Throw(r, "hourlyStatsQuery", e)
        /\ UNCHANGED hourlyStats
  /\ UNCHANGED <<form, phoneToNameMap, db, messages, contacts, dailyStats, formatted>>

\* lines 222-269: the statistics and the formatted lists
Format(r) ==
  /\ pc[r] = "format"
  /\ IF FormatThrows(messages[r], contacts[r])
     THEN /\ Throw(r, "format", [message |-> "phone.replace is not a function"])
          /\ UNCHANGED formatted
     ELSE /\ formatted' = [formatted EXCEPT ![r] =
                 <<Formatted(phoneToNameMap[r], messages[r], contacts[r],
                             dailyStats[r], hourlyStats[r])>>]
          /\ Goto(r, "close")
          /\ UNCHANGED <<thrown, response>>
  /\ UNCHANGED <<form, phoneToNameMap, db, messages, contacts, dailyStats, hourlyStats>>

\* lines 271-284: db.close() and the success response
CloseAndRespond(r) ==
  /\ pc[r] = "close"
  /\ db' = [db EXCEPT ![r].state = "closed"]
  /\ response' = [response EXCEPT ![r] = Append(@, SuccessResponse(formatted[r][1]))]
  /\ Goto(r, "done")
  /\ UNCHANGED <<form, phoneToNameMap, messages, contacts, dailyStats, hourlyStats,
                 formatted, thrown>>

\* The state of the requests in `arriving` as they reach the handler
ReqInit(arriving) ==
  /\ pc = [r \in Requests |-> IF r \in arriving THEN "formData" ELSE "idle"]
  /\ form = [r \in Requests |-> [file |-> NoFile, contactsFile |-> NoFile]]
  /\ phoneToNameMap = [r \in Requests |-> <<>>]
  /\ db = [r \in Requests |-> NoDb]
  /\ messages = [r \in Requests |-> <<>>]
  /\ contacts = [r \in Requests |-> <<>>]
  /\ dailyStats = [r \in Requests |-> <<>>]
  /\ hourlyStats = [r \in Requests |-> <<>>]
  /\ formatted = [r \in Requests |-> <<>>]
  /\ response = [r \in Requests |-> <<>>]
  /\ thrown = [r \in Requests |-> <<>>]

VcIdle ==
  /\ vcRecords = <<>>
  /\ vcardContent = <<>>
  /\ vcContacts = <<>>
  /\ vcIdx = 0
  /\ phoneToName = <<>>
  /\ setLog = <<>>
  /\ vcPc = "idle"

(***************************************************************************)
(* Specifications                                                          *)
(***************************************************************************)
\* One request, from its arrival to its response
Init == VcIdle /\ ReqInit({1})

Next ==
  \E r \in Requests :
    \/ FormData(r) /\ UNCHANGED vcVars
    \/ ContactsText(r) /\ UNCHANGED vcVars
    \/ ArrayBuffer(r) /\ UNCHANGED vcVars
    \/ ReadWasm(r) /\ UNCHANGED vcVars
    \/ ReadWasmAlt(r) /\ UNCHANGED vcVars
    \/ InitSqlJs(r) /\ UNCHANGED vcVars
    \/ OpenDatabase(r) /\ UNCHANGED vcVars
    \/ ExecMessages(r) /\ UNCHANGED vcVars
    \/ ExecContacts(r) /\ UNCHANGED vcVars
    \/ ExecDailyStats(r) /\ UNCHANGED vcVars
    \/ ExecHourlyStats(r) /\ UNCHANGED vcVars
    \/ Format(r) /\ UNCHANGED vcVars
    \/ CloseAndRespond(r) /\ UNCHANGED vcVars

Spec == Init /\ [][Next]_vars

\* parseVCard on every address-book text of the pool
InitVCard == VcInit /\ ReqInit({})

NextVCard ==
  \/ VcSplit /\ UNCHANGED reqVars
  \/ VcSkipBlank /\ UNCHANGED reqVars
  \/ VcSkipUnnamed /\ UNCHANGED reqVars
  \/ VcAddContact /\ UNCHANGED reqVars
  \/ VcReturn /\ UNCHANGED reqVars

SpecVCard == InitVCard /\ [][NextVCard]_vars

\* Two requests in flight at once: each is a call of POST with its own locals,
\* and the event loop runs one step of one of them at a time
ConcurrentStores ==
  {st \in Stores : /\ Len(st.handle) = 2 /\ Len(st.message) = 1
                   /\ st.handle[2].id.t = "text" /\ st.handle[2].id.v # <<>>
                   /\ st.message[1].handle_id = IntV(1)
                   /\ st.message[1].is_from_me = IntV(1)}

ConcurrentFiles == {NoFile} \cup {DbFile(st) : st \in ConcurrentStores}

ConcurrentContacts == ContactsInputs \ {ContactsFile(<<>>)}

\* The uploads request r's form data holds are among the concurrent ones
ConcurrentInput(r) ==
  /\ form'[r].file \in ConcurrentFiles
  /\ form'[r].contactsFile \in ConcurrentContacts

InitConcurrent == VcIdle /\ ReqInit(Requests)

NextConcurrent ==
  \E r \in Requests :
    \/ FormData(r) /\ ConcurrentInput(r) /\ UNCHANGED vcVars
    \/ ContactsText(r) /\ UNCHANGED vcVars
    \/ ArrayBuffer(r) /\ UNCHANGED vcVars
    \/ ReadWasm(r) /\ UNCHANGED vcVars
    \/ ReadWasmAlt(r) /\ UNCHANGED vcVars
    \/ InitSqlJs(r) /\ UNCHANGED vcVars
    \/ OpenDatabase(r) /\ UNCHANGED vcVars
    \/ ExecMessages(r) /\ UNCHANGED vcVars
    \/ ExecContacts(r) /\ UNCHANGED vcVars
    \/ ExecDailyStats(r) /\ UNCHANGED vcVars
    \/ ExecHourlyStats(r) /\ UNCHANGED vcVars
    \/ Format(r) /\ UNCHANGED vcVars
    \/ CloseAndRespond(r) /\ UNCHANGED vcVars

SpecConcurrent == InitConcurrent /\ [][NextConcurrent]_vars

(***************************************************************************)
(* Properties                                                              *)
(***************************************************************************)
ResultFields == {"summary", "contacts", "dailyStats", "hourlyStats", "messages"}

StoreSteps ==
  {"open", "messagesQuery", "contactsQuery", "dailyStatsQuery", "hourlyStatsQuery"}

Threw(r, places) == \E i \in DOMAIN thrown[r] : thrown[r][i] \in places

Succeeded(r) == response[r] # <<>> /\ response[r][1].status = 200

RECURSIVE SumCounts(_)
SumCounts(rows) ==
  IF rows = <<>> THEN 0
  ELSE Head(rows).sentCount.v + Head(rows).receivedCount.v + SumCounts(Tail(rows))

\* C1: whenever a request has returned and its Database object was
\* constructed, the database has been closed.
C1_ClosedOnEveryExit ==
  \A r \in Requests : pc[r] = "done" /\ db[r].state # "none" => db[r].state = "closed"

\* The name the first phoneToName.set call for key k stored
FirstWriter(k) ==
  setLog[Min({i \in DOMAIN setLog : setLog[i][2] = k})][3]

\* C2: the directory parseVCard returns maps every key to the name of the
\* first record that stored it (first writer wins).
C2_FirstWriterWins ==
  vcPc = "returned" => \A k \in DOMAIN phoneToName : phoneToName[k] = FirstWriter(k)

\* C3: a request answers at most once; a response holds either the error alone
\* or all five result fields; and a request whose store failed to open or to
\* answer one of the four queries has returned exactly one failure response
\* carrying a non-empty error message and no result field.
C3_SingleFailureNoPartialResult ==
  \A r \in Requests :
    /\ Len(response[r]) <= 1
    /\ \A i \in DOMAIN response[r] :
         \/ DOMAIN response[r][i].body = {"error"}
         \/ DOMAIN response[r][i].body = ResultFields
    /\ Threw(r, StoreSteps) =>
         /\ pc[r] = "done"
         /\ Len(response[r]) = 1
         /\ response[r][1].status = 500
         /\ DOMAIN response[r][1].body = {"error"}
         /\ response[r][1].body.error # ""

\* C3 witness: the second query failed after the first had returned rows
C3_Witness ==
  \E r \in Requests :
    /\ pc[r] = "done" /\ Threw(r, {"contactsQuery"})
    /\ messages[r] # <<>>
    /\ response[r][1].body.error = "Failed to analyze chat.db"

\* What a request on this store answers when there is no address book at all
\* and nothing fails: every query's rows, formatted against the empty directory
AnswerWithoutContacts(store) ==
  SuccessResponse(Formatted(<<>>, MessagesQuery(store), ContactsQuery(store),
                            DailyStatsQuery(store), HourlyStatsQuery(store)))

\* C4: after the contacts step has thrown, the directory is empty and the
\* request goes on: it ends as the same store ends without an address book,
\* with the success result (no contactName set, database opened and all four
\* queries run) unless a later step fails, and then with the failure response.
C4_ContactsFailureAbsorbed ==
  \A r \in Requests :
    Threw(r, {"contacts"}) =>
      /\ phoneToNameMap[r] = <<>>
      /\ pc[r] = "done" =>
           /\ Len(response[r]) = 1
           /\ IF thrown[r] = <<"contacts">>
              THEN /\ response[r][1] = AnswerWithoutContacts(form[r].file.store)
                   /\ db[r].state = "closed"
                   /\ \A i \in DOMAIN response[r][1].body.messages :
                        response[r][1].body.messages[i].contactName = Null
                   /\ \A i \in DOMAIN response[r][1].body.contacts :
                        response[r][1].body.contacts[i].contactName = Null
              ELSE /\ Len(thrown[r]) = 2
                   /\ thrown[r][2] # "contacts"
                   /\ response[r][1].status = 500
                   /\ DOMAIN response[r][1].body = {"error"}

\* C4 witness: the contacts step threw and the request still returned the
\* rows of a store with messages and handles
C4_Witness ==
  \E r \in Requests :
    /\ pc[r] = "done" /\ thrown[r] = <<"contacts">>
    /\ Succeeded(r)
    /\ response[r][1].body.messages # <<>>
    /\ response[r][1].body.contacts # <<>>

\* C5: in every result, every contacts row has
\* receivedCount + sentCount = messageCount.
C5_ContactCountsAddUp ==
  \A r \in Requests :
    Succeeded(r) =>
      \A i \in DOMAIN response[r][1].body.contacts :
        LET row == response[r][1].body.contacts[i]
        IN row.receivedCount.v + row.sentCount.v = row.messageCount.v

\* The messagesQuery row belongs to a message whose handle_id found a handle row
HasHandle(store, row) == \E i \in DOMAIN store.handle : row[7] = IntV(store.handle[i].ROWID)

\* C6: in every result, sentCount + receivedCount summed over the contacts
\* rows is the number of all-messages rows that have a handle.
C6_ContactSumIsHandleTotal ==
  \A r \in Requests :
    Succeeded(r) =>
      SumCounts(response[r][1].body.contacts)
        = Len(SelectSeq(messages[r], LAMBDA row : HasHandle(db[r].store, row)))

\* C7: in every result, totalMessages is the number of all-messages rows,
\* sentMessages the number of those flagged 'from me' and receivedMessages the
\* number of all the others, so that sent + received = total.
C7_SentPlusReceivedIsTotal ==
  \A r \in Requests :
    Succeeded(r) =>
      LET sum == response[r][1].body.summary
      IN /\ sum.totalMessages = Len(messages[r])
         /\ sum.sentMessages = Len(SelectSeq(messages[r], LAMBDA row : row[6] = IntV(1)))
         /\ sum.receivedMessages = sum.totalMessages - sum.sentMessages

\* The telephone values the address book holds for record i
TelValues(i) ==
  {vcRecords[i].fields[f].value :
     f \in {g \in DOMAIN vcRecords[i].fields : vcRecords[i].fields[g].kind = "TEL"}}

DigitsOf(value) == SelectSeq(value, IsDigit)

Last10(key) ==
  IF Len(key) <= 10 THEN key ELSE [i \in 1..10 |-> key[Len(key) - 10 + i]]

\* The keys a telephone value is to be found under: the full key and its last
\* ten digits (for an 11-digit key that starts with 1, the key without the 1)
KeysOf(value) ==
  IF Len(DigitsOf(value)) < 10 THEN {} ELSE {DigitsOf(value), Last10(DigitsOf(value))}

\* The chunk of the split text that holds record i: chunk 1 is what precedes
\* the first BEGIN:VCARD
ChunkOf(i) == vcContacts[i + 1]

\* Record i has a name as parseVCard derives it
Named(i) == ContactName(ChunkOf(i)) # <<>>

\* An 11-digit telephone value of record i that starts with 1
UsNumbers(i) ==
  {v \in TelValues(i) : Len(DigitsOf(v)) = 11 /\ DigitsOf(v)[1] = "1"}

\* No record other than i holds a telephone value that is stored under a key of v
Unshared(i, v) ==
  \A j \in DOMAIN vcRecords :
    j # i => \A w \in TelValues(j) : KeysOf(w) \cap KeysOf(v) = {}

HasNameField(i) ==
  \E f \in DOMAIN vcRecords[i].fields : vcRecords[i].fields[f].kind \in {"FN", "N"}

\* C9: no phoneToName.set call is made for a record that has neither an FN nor
\* an N field.
C9_UnnamedRecordAddsNothing ==
  \A e \in DOMAIN setLog : HasNameField(setLog[e][1] - 1)

\* The name the directory gives a raw handle: the entry of its digits, else the
\* entry of the last ten of its digits, else none; none for a null handle
ResolvedName(dir, raw) ==
  IF raw.t # "text" THEN Null
  ELSE IF DigitsOf(raw.v) \in DOMAIN dir THEN Text(dir[DigitsOf(raw.v)])
  ELSE IF Last10(DigitsOf(raw.v)) \in DOMAIN dir THEN Text(dir[Last10(DigitsOf(raw.v))])
  ELSE Null

IsStringOrNull(x) == x.t \in {"text", "null"}

\* C10: every message entry and contact entry of a result carries the name the
\* request's directory resolves its raw handle to, and the formatting step
\* throws only when some handle is neither a string nor null.
C10_ContactNameResolution ==
  \A r \in Requests :
    /\ Succeeded(r) =>
         /\ \A i \in DOMAIN response[r][1].body.messages :
              LET e == response[r][1].body.messages[i]
              IN e.contactName = ResolvedName(phoneToNameMap[r], e.phoneNumber)
         /\ \A i \in DOMAIN response[r][1].body.contacts :
              LET e == response[r][1].body.contacts[i]
              IN e.contactName = ResolvedName(phoneToNameMap[r], e.phoneNumber)
    /\ Threw(r, {"format"}) =>
         \/ \E i \in DOMAIN messages[r] : ~IsStringOrNull(messages[r][i][8])
         \/ \E i \in DOMAIN contacts[r] : ~IsStringOrNull(contacts[r][i][2])

\* C10 witness: a result with a name found under the last ten digits only and
\* a message whose handle is null
C10_Witness ==
  \E r \in Requests :
    /\ Succeeded(r)
    /\ \E i \in DOMAIN response[r][1].body.contacts :
         LET e == response[r][1].body.contacts[i]
         IN /\ e.contactName # Null
            /\ DigitsOf(e.phoneNumber.v) \notin DOMAIN phoneToNameMap[r]
    /\ \E i \in DOMAIN response[r][1].body.messages :
         LET e == response[r][1].body.messages[i]
         IN e.phoneNumber = Null /\ e.contactName = Null

\* C11: every hourlyStats row of a result has an hour in 0..23, and no two
\* rows of a result have the same hour.
C11_HoursInRangeAndDistinct ==
  \A r \in Requests :
    Succeeded(r) =>
      LET hs == response[r][1].body.hourlyStats
      IN /\ \A i \in DOMAIN hs : hs[i].hour.t = "int" /\ hs[i].hour.v \in 0..23
         /\ \A i, j \in DOMAIN hs : i # j => hs[i].hour # hs[j].hour

\* The number of rows of message LEFT JOIN chat_message_join: one per join row
\* and one per message that no join row names
JoinedRowCount(store) ==
  Len(store.chat_message_join)
    + Cardinality({i \in DOMAIN store.message :
                     \A k \in DOMAIN store.chat_message_join :
                       store.chat_message_join[k].message_id # i})

\* C12: the messages of a result are the first min(100, n) of the n rows of the
\* all-messages query, in its order (no row is dated after a row ahead of it),
\* entry i made from row i, and totalMessages is n.
C12_MessagesCappedNewestFirst ==
  \A r \in Requests :
    Succeeded(r) =>
      LET out == response[r][1].body.messages
          rows == messages[r]
      IN /\ Len(rows) = JoinedRowCount(db[r].store)
         /\ \A i, j \in DOMAIN rows : i < j => SortKey(rows[i][4]) >= SortKey(rows[j][4])
         /\ Len(out) = Min({MessageCap, Len(rows)})
         /\ \A i \in DOMAIN out : /\ out[i].id = rows[i][1]
                                  /\ out[i].date = rows[i][4]
                                  /\ out[i].isFromMe = (rows[i][6] = IntV(1))
                                  /\ out[i].phoneNumber = rows[i][8]
                                  /\ out[i].chatIdentifier = rows[i][9]
                                  /\ out[i].readableDate = rows[i][11]
         /\ response[r][1].body.summary.totalMessages = Len(rows)

\* C12 witness: a result of a store with more than 100 all-messages rows keeps
\* 100 of them and counts them all
C12_Witness ==
  \E r \in Requests :
    /\ Succeeded(r)
    /\ Len(messages[r]) > MessageCap
    /\ Len(response[r][1].body.messages) = MessageCap
    /\ response[r][1].body.summary.totalMessages > MessageCap

\* The directory a request builds from its own contacts upload
OwnDirectory(f) ==
  IF f.contactsFile.kind = "file" /\ f.contactsFile.readable
  THEN parseVCard(f.contactsFile.text) ELSE <<>>

\* The result of a request run alone on its own uploads
AloneResult(f) ==
  SuccessResponse(Formatted(OwnDirectory(f), MessagesQuery(f.file.store),
                            ContactsQuery(f.file.store), DailyStatsQuery(f.file.store),
                            HourlyStatsQuery(f.file.store)))

\* What request r holds and answers comes from its own uploads and its own
\* failures, whatever the other request holds
OwnOutcome(r) ==
  /\ phoneToNameMap[r] # <<>> => phoneToNameMap[r] = OwnDirectory(form[r])
  /\ db[r] # NoDb => db[r].store = form[r].file.store
  /\ messages[r] # <<>> => messages[r] = MessagesQuery(form[r].file.store)
  /\ contacts[r] # <<>> => contacts[r] = ContactsQuery(form[r].file.store)
  /\ pc[r] = "done" =>
       /\ Len(response[r]) = 1
       /\ IF \E i \in DOMAIN thrown[r] : thrown[r][i] # "contacts"
          THEN response[r][1].status = 500 /\ DOMAIN response[r][1].body = {"error"}
          ELSE IF form[r].file.kind = "none" THEN response[r][1] = NoFileResponse
          ELSE response[r][1] = AloneResult(form[r])

\* A step leaves everything of a request that does not take it as it was
OthersUntouched ==
  \A r \in Requests :
    pc'[r] = pc[r] =>
      /\ form'[r] = form[r] /\ phoneToNameMap'[r] = phoneToNameMap[r]
      /\ db'[r] = db[r] /\ messages'[r] = messages[r] /\ contacts'[r] = contacts[r]
      /\ dailyStats'[r] = dailyStats[r] /\ hourlyStats'[r] = hourlyStats[r]
      /\ formatted'[r] = formatted[r] /\ response'[r] = response[r]
      /\ thrown'[r] = thrown[r]

\* C13: with two requests interleaved step by step, each request's directory,
\* store, query results and response are the ones it has when run alone on its
\* own uploads, and no step of one request changes anything of the other.
C13_RequestsIndependent ==
  /\ [](\A r \in Requests : OwnOutcome(r))
  /\ [][OthersUntouched]_vars

\* C13 witness: request 1 has answered with a name of its own directory while
\* request 2, with another directory and another store open, is still in flight
C13_Witness ==
  /\ Succeeded(1)
  /\ \E i \in DOMAIN response[1][1].body.contacts :
       response[1][1].body.contacts[i].contactName # Null
  /\ pc[2] \notin {"formData", "done"}
  /\ db[2] # NoDb /\ db[2].state = "open" /\ db[2].store # db[1].store
  /\ phoneToNameMap[2] # <<>> /\ phoneToNameMap[2] # phoneToNameMap[1]

\* Record i has no full-name field with a value, and has a structured-name field
StructuredOnly(i) ==
  /\ \A f \in DOMAIN vcRecords[i].fields :
       vcRecords[i].fields[f].kind = "FN" => vcRecords[i].fields[f].value = <<>>
  /\ \E f \in DOMAIN vcRecords[i].fields : vcRecords[i].fields[f].kind = "N"

\* The components of record i's structured-name field by position:
\* 1 family, 2 given, 3 additional, 4 prefix, 5 suffix
Components(i) ==
  LET f == CHOOSE g \in DOMAIN vcRecords[i].fields : vcRecords[i].fields[g].kind = "N"
      parts == SplitSemi(vcRecords[i].fields[f].value)
  IN [k \in 1..5 |-> IF k <= Len(parts) THEN Trim(parts[k]) ELSE <<>>]

\* 'given family' with an empty one of the two skipped, else the first
\* component that is not empty
PositionalName(c) ==
  IF c[1] # <<>> /\ c[2] # <<>> THEN c[2] \o <<SP>> \o c[1]
  ELSE IF c[2] # <<>> THEN c[2]
  ELSE IF c[1] # <<>> THEN c[1]
  ELSE LET rest == SelectSeq(c, NonEmpty) IN IF rest = <<>> THEN <<>> ELSE rest[1]

\* C14: every name parseVCard stores for a record that has a structured-name
\* field and no usable full-name field is 'given family' by position (family
\* the first component, given the second), or the first non-empty component
\* when both are empty.
C14_PositionalStructuredName ==
  \A e \in DOMAIN setLog :
    StructuredOnly(setLog[e][1] - 1) =>
      setLog[e][3] = PositionalName(Components(setLog[e][1] - 1))

====
